---- MODULE Spec2Model ----
(***************************************************************************)
(* The authenticated API client of the NCLEX tutoring frontend             *)
(* (frontend/lib/api.js) and the session context that uses it.             *)
(*                                                                         *)
(* Every asynchronous call is a process: a record of the function it runs *)
(* (op), the await it is suspended at (pc) and its local variables.        *)
(* JavaScript runs each stretch of code between two awaits without         *)
(* interruption, so one action is one such stretch: from the resumption of *)
(* a call (a response or a network failure arriving) to its next await or  *)
(* to its end, through every function it returns into on the way.          *)
(* The backend is the environment: it may answer any request with any      *)
(* response of the endpoint's contract, or the request may fail.           *)
(*                                                                         *)
(* The pages that use the client (login, payment, progress, chat and the   *)
(* views that wait for the session) each have a specification of their    *)
(* own: the state of the page is the record `ui`, its handlers start calls *)
(* of the client and resume when they have finished.                       *)
(***************************************************************************)
EXTENDS Naturals, Sequences, FiniteSets, Bags, TLC

VARIABLES
  localStorage,  \* the credential store: access_token and refresh_token
  issued,        \* number of token pairs the backend has issued so far
  calls,         \* the calls made so far, in flight or finished: a bag of
                 \* records, each the op, the pc and the locals of one call
  user,          \* AuthProvider state: the session user
  loading,       \* AuthProvider state: the loading flag
  classifier,    \* handleApiError on its own: its argument and what it gave
  ui             \* the page that is open: the state of its component

vars == <<localStorage, issued, calls, user, loading, classifier, ui>>

(* ------------------------------ bounds --------------------------------- *)

\* the number of calls made in one run (all of them may be in flight together)
NumCalls == 2
\* the largest retry_after (seconds) an error body carries
MaxRetryAfter == 2
\* the events a page receives in one run: submissions, clicks, selections
MaxEvents == 3

(* ------------------------------ values --------------------------------- *)

\* JavaScript null: getItem of an absent key, refreshToken's failure value
Null == <<"null">>
\* JavaScript undefined: a field the object does not have
Undefined == <<"undefined">>
\* a local that has not been assigned yet
Unset == <<"unset">>
\* JavaScript strings, numbers and booleans
Str(s) == <<"string", s>>
Num(n) == <<"number", n>>
Bool(b) == <<"boolean", b>>
\* a JavaScript object with the fields of the record rec
Obj(rec) == <<"object", rec>>
\* what `if (v)`, `!v` and `v || w` test
Truthy(v) == v \notin {Null, Undefined, Unset, Str(""), Num(0), Bool(FALSE)}
OrElse(v, w) == IF Truthy(v) THEN v ELSE w
\* the tokens of the n-th pair the backend issues
AccessToken(n) == <<"access", n>>
RefreshToken(n) == <<"refresh", n>>
TokenPair(n) == [access_token |-> AccessToken(n), refresh_token |-> RefreshToken(n)]
\* the issuance a token belongs to
Issuance(tok) == tok[2]

\* a body that is not JSON: response.json() rejects on it
NotJson == [kind |-> "text"]
Json(obj) == [kind |-> "json", obj |-> obj]
\* the JSON object {}
EmptyObject == [f \in {} |-> Undefined]
\* obj.f
Field(obj, f) == IF f \in DOMAIN obj THEN obj[f] ELSE Undefined
\* a network failure: fetch rejects, there is no response (Response.error())
NetworkError == [type |-> "error", status |-> 0, body |-> NotJson, bodyUsed |-> FALSE]
HttpResponse(status, body) ==
  [type |-> "basic", status |-> status, body |-> body, bodyUsed |-> FALSE]
Rejected(r) == r.type = "error"
\* Response.ok
Ok(r) == r.status >= 200 /\ r.status <= 299
NoResponse == [type |-> "none", status |-> 0, body |-> NotJson, bodyUsed |-> FALSE]

\* await response.json(): rejects when the body is not JSON or was read before
Threw == [threw |-> TRUE, value |-> Undefined]
Returned(v) == [threw |-> FALSE, value |-> v]
json(r) ==
  IF r.bodyUsed \/ r.body.kind # "json" THEN Threw ELSE Returned(r.body.obj)
\* the response once its body has been read
Used(r) == [r EXCEPT !.bodyUsed = TRUE]

\* the response apiRequest makes up when the refresh failed
AuthFailedResponse ==
  HttpResponse(401, Json([detail |-> Str("Authentication failed, please log in.")]))

(* --------------------------- localStorage ------------------------------ *)

getItem(ls, key) == ls[key]
\* the storage holds strings: setItem stores String(value)
ToStorage(value) ==
  IF value = Undefined THEN Str("undefined")
  ELSE IF value = Null THEN Str("null") ELSE value
setItem(ls, key, value) == [ls EXCEPT ![key] = ToStorage(value)]
removeItem(ls, key) == [ls EXCEPT ![key] = Null]
EmptyStore == [access_token |-> Null, refresh_token |-> Null]

\* login and refreshToken: both setItem calls, in one synchronous stretch
StorePair(ls, data) ==
  setItem(setItem(ls, "access_token", Field(data, "access_token")),
          "refresh_token", Field(data, "refresh_token"))

\* mutant: the refresh token is left behind
RemoveAccessOnly(ls) == removeItem(ls, "access_token")

\* logout, logoutAll, deleteAccountImmediate, loadUser: both removeItem calls
RemovePair(ls) == removeItem(removeItem(ls, "access_token"), "refresh_token")

(* ------------------------------ a call --------------------------------- *)

IdleCall ==
  [op       |-> "none",     \* the exported function the slot runs
   url      |-> "none",     \* apiRequest called by a page: the endpoint
   pc       |-> "idle",     \* idle, fetch1, refresh, fetch2, loginFetch, done
   token    |-> Null,       \* apiRequest: const token
   body     |-> Undefined,  \* options.body: the refresh_token logout puts in it
   sent     |-> <<>>,       \* the target requests sent: bearer token and body
   api      |-> "none",     \* apiRequest: none, pending, returned, threw
   rtCalls  |-> 0,          \* invocations of refreshToken
   rtSent   |-> <<>>,       \* the refresh tokens posted to the refresh endpoint
   rtRet    |-> Unset,      \* what refreshToken returned
   response |-> NoResponse, \* what apiRequest returned
   first    |-> NoResponse, \* apiRequest, login: the answer to the first request
   retried  |-> NoResponse, \* apiRequest: the answer to the retry
   refreshed |-> NoResponse, \* refreshToken: the answer of the refresh endpoint
   outcome  |-> "pending",  \* of the slot's function: pending, returned, threw
   result   |-> Unset,      \* the value the slot's function returned
   hrefs    |-> <<>>,       \* assignments to window.location.href, with their line
   toasts   |-> <<>>]       \* toast() calls, by title

Redirect(q, href, line) ==
  [q EXCEPT !.hrefs = Append(@, [href |-> href, line |-> line])]
Toast(q, title) == [q EXCEPT !.toasts = Append(@, title)]


(* --------------------------- handleApiError ---------------------------- *)

FallbackMessage == Str("An unexpected error occurred.")

\* mutant: the human-readable duration is taken for the number of seconds
rateLimitedHumanDelay(data) ==
  [isRateLimited   |-> Bool(TRUE),
   isLocked        |-> Undefined,
   message         |-> Field(data, "detail"),
   retryAfter      |-> Field(data, "retry_after_human"),
   retryAfterHuman |-> Field(data, "retry_after_human"),
   errors          |-> Undefined]

\* the 429 branch
rateLimited(data) ==
  [isRateLimited   |-> Bool(TRUE),
   isLocked        |-> Undefined,
   message         |-> Field(data, "detail"),
   retryAfter      |-> Field(data, "retry_after"),
   retryAfterHuman |-> Field(data, "retry_after_human"),
   errors          |-> Undefined]

\* mutant: a locked answer that carries retry_after is reported as rate-limited
lockedOrRateLimited(data) ==
  [isRateLimited   |-> IF Truthy(Field(data, "retry_after")) THEN Bool(TRUE) ELSE Undefined,
   isLocked        |-> Bool(TRUE),
   message         |-> Field(data, "detail"),
   retryAfter      |-> Field(data, "retry_after"),
   retryAfterHuman |-> Undefined,
   errors          |-> Undefined]

\* the 423 branch
locked(data) ==
  [isRateLimited   |-> Undefined,
   isLocked        |-> Bool(TRUE),
   message         |-> Field(data, "detail"),
   retryAfter      |-> Undefined,
   retryAfterHuman |-> Undefined,
   errors          |-> Undefined]

\* mutant: no fallback for the message
genericNoFallback(data) ==
  [isRateLimited   |-> Bool(FALSE),
   isLocked        |-> Bool(FALSE),
   message         |-> Field(data, "detail"),
   retryAfter      |-> Undefined,
   retryAfterHuman |-> Undefined,
   errors          |-> OrElse(Field(data, "errors"), Obj(EmptyObject))]

\* the branch of every other status
generic(data) ==
  [isRateLimited   |-> Bool(FALSE),
   isLocked        |-> Bool(FALSE),
   message         |-> OrElse(Field(data, "detail"), FallbackMessage),
   retryAfter      |-> Undefined,
   retryAfterHuman |-> Undefined,
   errors          |-> OrElse(Field(data, "errors"), Obj(EmptyObject))]

\* handleApiError(response): the classified error, or the rejection of
\* response.json()
handleApiError(response) ==
  LET data == json(response) IN
  IF data.threw THEN Threw
  ELSE IF response.status = 429 THEN Returned(rateLimited(data.value))
  ELSE IF response.status = 423 THEN Returned(locked(data.value))
  ELSE Returned(generic(data.value))

\* handleApiError taken alone: not called (off), called with `response`
\* (ready), finished with `error` (done)
\* no page is under study
NoPage == [page |-> "none"]

ClassifierOff == [pc |-> "off", response |-> NoResponse, error |-> Returned(Unset)]

\* a field the body does not have
Absent == <<"absent">>
FieldOpt(name, opt) == IF opt = Absent THEN EmptyObject ELSE name :> opt

\* the error bodies of the backend: detail, retry_after and errors, each
\* present or not, and a body that is not JSON
ErrorDetails == {Absent, Null, Str(""), Str("Request refused")}
ErrorRetryAfters == {Absent} \cup {Num(n) : n \in 0..MaxRetryAfter}
ErrorMaps == {Absent, Null, Obj([email |-> Str("This field is required.")])}
ErrorBodies ==
  { Json(FieldOpt("detail", d) @@ FieldOpt("retry_after", ra) @@ FieldOpt("errors", e)) :
      d \in ErrorDetails, ra \in ErrorRetryAfters, e \in ErrorMaps }
  \cup {NotJson}
ErrorStatuses == {400, 401, 403, 423, 429, 500}
ErrorResponses == { HttpResponse(st, b) : st \in ErrorStatuses, b \in ErrorBodies }

\* a caller hands a non-2xx response to handleApiError
ClassifierInit ==
  /\ classifier \in { [pc |-> "ready", response |-> r, error |-> Returned(Unset)] :
                         r \in ErrorResponses }
  /\ localStorage = EmptyStore
  /\ issued = 0
  /\ calls = EmptyBag
  /\ user = Null
  /\ loading = TRUE
  /\ ui = NoPage

\* handleApiError runs to its end (its only await is response.json())
Classify ==
  /\ classifier.pc = "ready"
  /\ classifier' = [classifier EXCEPT !.pc = "done",
                                      !.error = handleApiError(classifier.response)]
  /\ UNCHANGED <<localStorage, issued, calls, user, loading, ui>>

SpecClassifier == ClassifierInit /\ [][Classify]_vars

(* ----------------------------- refreshToken ---------------------------- *)

\* mutant: the guard on a missing refresh token is forgotten
NoRefreshTokenUnchecked(refresh_token) == FALSE

\* `if (!refresh_token)`: nothing to refresh with
NoRefreshToken(refresh_token) == ~Truthy(refresh_token)

\* refreshToken from its invocation to its await of fetch, or to `return null`
refreshTokenBegin(q, ls) ==
  LET refresh_token == getItem(ls, "refresh_token")
      q1 == [q EXCEPT !.rtCalls = @ + 1]
  IN  IF NoRefreshToken(refresh_token)
        THEN [Redirect(q1, "/login", 41) EXCEPT !.rtRet = Null]
        ELSE [q1 EXCEPT !.rtSent = Append(@, refresh_token), !.pc = "refresh"]

\* mutant: the catch block reports the failure and does not redirect
refreshTokenCatchNoRedirect(q) ==
  [Toast(q, "Network Error") EXCEPT !.rtRet = Null]

\* the catch block: a rejection of fetch, of response.json() or of handleApiError
refreshTokenCatch(q) ==
  [Redirect(Toast(q, "Network Error"), "/login", 75) EXCEPT !.rtRet = Null]

\* the else branch: the refresh endpoint answered non-2xx
refreshTokenRefused(q, response) ==
  IF handleApiError(response).threw
    THEN refreshTokenCatch(q)
    ELSE [Redirect(Toast(q, "Session Expired"), "/login", 65) EXCEPT !.rtRet = Null]

\* mutant: only the access token of the response is stored
refreshTokenStoredAccessOnly(q, ls, data) ==
  [q  |-> [q EXCEPT !.rtRet = Field(data, "access_token")],
   ls |-> setItem(ls, "access_token", Field(data, "access_token"))]

\* the 2xx branch: both tokens of the response stored, its access token returned
refreshTokenStored(q, ls, data) ==
  [q  |-> [q EXCEPT !.rtRet = Field(data, "access_token")],
   ls |-> StorePair(ls, data)]

\* refreshToken from the resumption of its fetch to its return:
\* the call's locals and the store it leaves
refreshTokenResume(q0, ls, r) ==
  LET q == [q0 EXCEPT !.refreshed = r] IN
  IF Rejected(r) THEN [q |-> refreshTokenCatch(q), ls |-> ls]
  ELSE IF Ok(r) THEN
    IF json(r).threw THEN [q |-> refreshTokenCatch(q), ls |-> ls]
    ELSE refreshTokenStored(q, ls, json(r).value)
  ELSE [q |-> refreshTokenRefused(q, r), ls |-> ls]

(* ------------------------------ apiRequest ----------------------------- *)

\* mutant: makeRequest ignores its argument and sends the token read at the start
makeRequestStaleToken(q, currentAccessToken) ==
  [q EXCEPT !.sent = Append(@, [bearer |-> q.token, body |-> q.body])]

\* makeRequest(currentAccessToken): the fetch of the target with that bearer
makeRequest(q, currentAccessToken) ==
  [q EXCEPT !.sent = Append(@, [bearer |-> currentAccessToken, body |-> q.body])]

\* apiRequest from its invocation to its await of the first response
apiRequestBegin(q, ls) ==
  LET token == getItem(ls, "access_token")
  IN  [makeRequest([q EXCEPT !.token = token], token)
         EXCEPT !.pc = "fetch1", !.api = "pending"]

apiRequestReturn(q, response) ==
  [q EXCEPT !.api = "returned", !.response = response]
apiRequestThrow(q) == [q EXCEPT !.api = "threw"]

\* mutant: after a failed refresh the first 401 is handed back as it came
apiRequestAfterRefreshPassThrough(q) ==
  IF Truthy(q.rtRet)
    THEN [makeRequest(q, q.rtRet) EXCEPT !.pc = "fetch2"]
    ELSE apiRequestReturn(q, q.first)

\* apiRequest once refreshToken has returned: the retry, or the made-up 401
apiRequestAfterRefresh(q) ==
  IF Truthy(q.rtRet)
    THEN [makeRequest(q, q.rtRet) EXCEPT !.pc = "fetch2"]
    ELSE apiRequestReturn(q, AuthFailedResponse)

\* mutant: every answer from 401 up sets off a refresh
apiRequestFirstRefreshOnAnyError(q, ls, r) ==
  IF Rejected(r) THEN apiRequestThrow(q)
  ELSE LET q1 == [q EXCEPT !.first = r] IN
    IF r.status >= 401 THEN
      LET q2 == refreshTokenBegin(q1, ls)
      IN  IF q2.rtRet # Unset THEN apiRequestAfterRefresh(q2) ELSE q2
    ELSE apiRequestReturn(q1, r)

\* apiRequest from the resumption of its first fetch
apiRequestFirst(q, ls, r) ==
  IF Rejected(r) THEN apiRequestThrow(q)
  ELSE LET q1 == [q EXCEPT !.first = r] IN
    IF r.status = 401 THEN
      LET q2 == refreshTokenBegin(q1, ls)
      IN  IF q2.rtRet # Unset THEN apiRequestAfterRefresh(q2) ELSE q2
    ELSE apiRequestReturn(q1, r)

\* mutant: a retry answered 401 is sent again
apiRequestRetriedAgain(q, r) ==
  IF Rejected(r) THEN apiRequestThrow(q)
  ELSE IF r.status = 401 THEN makeRequest(q, q.rtRet)
  ELSE apiRequestReturn(q, r)

\* apiRequest from the resumption of its retry
apiRequestRetried(q, r) ==
  IF Rejected(r) THEN apiRequestThrow(q) ELSE apiRequestReturn(q, r)

\* the answer to the retry arrives
RetryAnswered(q, r) == apiRequestRetried([q EXCEPT !.retried = r], r)

(* ------------------------- the exported functions ---------------------- *)

\* the state one stretch of a call leaves: its locals, the store, the session
World(q, ls) == [q |-> q, ls |-> ls, user |-> user, loading |-> loading]

Return(q, value) == [q EXCEPT !.pc = "done", !.outcome = "returned", !.result = value]
Throw(q) == [q EXCEPT !.pc = "done", !.outcome = "threw"]

Success(data) ==
  [success |-> TRUE, data |-> data, error |-> Undefined, requires2FA |-> Undefined]
Failure(error) ==
  [success |-> FALSE, data |-> Undefined, error |-> error, requires2FA |-> Undefined]
Requires2FA ==
  [success |-> FALSE, data |-> Undefined, error |-> Undefined, requires2FA |-> Bool(TRUE)]

\* mutant: login stores the access token only
loginStoredAccessOnly(w, data) ==
  [w EXCEPT !.ls = setItem(@, "access_token", Field(data, "access_token")),
            !.q = Return(@, Success(Obj(data)))]

\* login, the 2xx branch: both tokens of the body stored, the body returned
loginStored(w, data) ==
  [w EXCEPT !.ls = StorePair(@, data), !.q = Return(@, Success(Obj(data)))]

\* mutant: the tokens are stored before the body is looked at
loginRequires2FAStores(w, data) ==
  [w EXCEPT !.ls = StorePair(@, data), !.q = Return(@, Requires2FA)]

\* login, the 400 branch with requires_2fa: nothing stored
loginRequires2FA(w, data) == [w EXCEPT !.q = Return(@, Requires2FA)]

\* login from the resumption of its fetch; the answer is kept in `first`
loginResume(w0, r) ==
  LET w == [w0 EXCEPT !.q.first = r] IN
  IF Rejected(r) THEN [w EXCEPT !.q = Throw(@)]
  ELSE IF Ok(r) THEN
    IF json(r).threw THEN [w EXCEPT !.q = Throw(@)]
    ELSE loginStored(w, json(r).value)
  ELSE IF r.status = 400 /\ json(r).threw THEN [w EXCEPT !.q = Throw(@)]
  ELSE IF r.status = 400 /\ Truthy(Field(json(r).value, "requires_2fa"))
    THEN loginRequires2FA(w, json(r).value)
  ELSE
    LET error == handleApiError(IF r.status = 400 THEN Used(r) ELSE r)
    IN  IF error.threw THEN [w EXCEPT !.q = Throw(@)]
        ELSE [w EXCEPT !.q = Return(@, Failure(Obj(error.value)))]

\* mutant: no catch around apiRequest, its rejection ends logout
logoutCleanupNoCatch(w) ==
  IF w.q.api = "threw" THEN [w EXCEPT !.q = Throw(@)]
  ELSE [w EXCEPT !.ls = RemovePair(@), !.q = Return(Redirect(@, "/", 194), Undefined)]

\* logout after its try/catch around apiRequest
logoutCleanup(w) ==
  [w EXCEPT !.ls = RemovePair(@), !.q = Return(Redirect(@, "/", 194), Undefined)]

\* logoutAll: the finally block
logoutAllFinally(w) ==
  [w EXCEPT !.ls = RemovePair(@), !.q = Return(Redirect(@, "/login", 207), Undefined)]

\* deleteAccountImmediate once apiRequest has returned or thrown
deleteAccountImmediateResume(w) ==
  IF w.q.api = "threw" THEN [w EXCEPT !.q = Throw(@)]
  ELSE IF Ok(w.q.response) THEN
    [w EXCEPT !.ls = RemovePair(@),
              !.q = Return(Redirect(@, "/goodbye", 442), Success(Undefined))]
  ELSE IF handleApiError(w.q.response).threw THEN [w EXCEPT !.q = Throw(@)]
  ELSE [w EXCEPT !.q = Return(@, Failure(Obj(handleApiError(w.q.response).value)))]

\* getUserProfile once apiRequest has returned or thrown: its result or rejection
getUserProfile(q) ==
  IF q.api = "threw" THEN Threw
  ELSE IF Ok(q.response) THEN
    IF json(q.response).threw THEN Threw
    ELSE Returned(Success(Obj(json(q.response).value)))
  ELSE IF handleApiError(q.response).threw THEN Threw
  ELSE Returned(Failure(Obj(handleApiError(q.response).value)))

\* loadUser: `setLoading(false)`, its last statement
loadUserEnd(w) == [w EXCEPT !.loading = FALSE, !.q = Return(@, Undefined)]

\* loadUser from `const result = await getUserProfile()`
loadUserResume(w) ==
  LET result == getUserProfile(w.q) IN
  IF result.threw THEN [w EXCEPT !.q = Throw(@)]
  ELSE IF result.value.success
    THEN loadUserEnd([w EXCEPT !.user = result.value.data])
    ELSE loadUserEnd([w EXCEPT !.ls = RemovePair(@), !.user = Null])

\* the caller of apiRequest resumes as soon as apiRequest has finished
Resume(w) ==
  IF w.q.api \notin {"returned", "threw"} THEN w
  ELSE CASE w.q.op = "apiRequest" ->
              IF w.q.api = "threw" THEN [w EXCEPT !.q = Throw(@)]
              ELSE [w EXCEPT !.q = Return(@, w.q.response)]
         [] w.q.op = "logout" -> logoutCleanup(w)
         [] w.q.op = "logoutAll" -> logoutAllFinally(w)
         [] w.q.op = "deleteAccountImmediate" -> deleteAccountImmediateResume(w)
         [] w.q.op = "loadUser" -> loadUserResume(w)

\* the caller of refreshToken resumes as soon as refreshToken has returned
AfterRefresh(w) ==
  IF w.q.rtRet = Unset THEN w
  ELSE IF w.q.op = "refreshToken" THEN [w EXCEPT !.q = Return(@, w.q.rtRet)]
  ELSE Resume([w EXCEPT !.q = apiRequestAfterRefresh(@)])

(* ------------------------------ the backend ---------------------------- *)

Detail(text) == Json([detail |-> Str(text)])
Profile == Json([id |-> Num(1), email |-> Str("a@b.c"), role |-> Str("student")])
AdminProfile == Json([id |-> Num(2), email |-> Str("x@y.z"), role |-> Str("admin")])

\* what the backend may answer to a request of apiRequest, or the failure of
\* the request; the body is one more case where the caller reads it
TargetResponses(op) ==
  { HttpResponse(200, Profile),
    HttpResponse(401, Detail("Token expired")),
    HttpResponse(500, Detail("Server error")),
    NetworkError }
  \cup (IF op \in {"deleteAccountImmediate", "loadUser"}
          THEN {HttpResponse(500, NotJson)} ELSE {})
  \cup (IF op = "loadUser" THEN {HttpResponse(200, AdminProfile)} ELSE {})

\* what any endpoint may answer besides its own responses: an expired token,
\* an error page that is not JSON, or the failure of the request
ErrorAnswers ==
  { HttpResponse(401, Detail("Token expired")),
    HttpResponse(500, NotJson),
    NetworkError }

\* to POST /api/payments/initiate/
PaymentResponses ==
  { HttpResponse(200, Json([transaction_id |-> Str("T1"), message |-> Str("Initiated")])),
    HttpResponse(200, NotJson),
    HttpResponse(400, Detail("Invalid payment details")) }

\* the courses of the catalogue, by id
Courses == {1, 2}
\* the id of the user of the session
UserId == Num(1)
\* /api/users/me/progress/${courseId}/
ProgressUrl(courseId) == "progress/" \o ToString(courseId)

\* a progress object; the backend sets completed_at when the percentage
\* reaches 100 and clears it when it leaves 100
ProgressObject(courseId, percentage) ==
  [course_id           |-> Num(courseId),
   user_id             |-> UserId,
   progress_percentage |-> Num(percentage),
   completed_at        |-> IF percentage = 100 THEN Str("2026-01-01") ELSE Null]

\* to PUT /api/users/me/progress/:courseId/ {progress_percentage}: the
\* progress object, with the percentage sent or the one the backend keeps
ProgressResponses(courseId, body) ==
  { HttpResponse(200, Json(ProgressObject(courseId, percentage))) :
      percentage \in {body[2], 50} }
  \cup { HttpResponse(400, Detail("Invalid progress")) }

\* the users one can chat with, by id
OtherUsers == {1, 2}
\* /api/messages/conversation/${otherUser.id}/
ConversationUrl(otherUserId) == "conversation/" \o ToString(otherUserId)
\* a message of the conversation with that user
Message(otherUserId, content) ==
  [id |-> Str("m"), conversation |-> otherUserId, content |-> content]

\* to GET /api/messages/conversation/:userId/: the thread
ConversationResponses(otherUserId) ==
  { HttpResponse(200, Json(<<Message(otherUserId, Str("hello"))>>)),
    HttpResponse(403, Detail("Not allowed")) }

\* to POST /api/messages/send/ {receiver_id, content}: the message created
SendResponses(body) ==
  { HttpResponse(201, Json(Message(body[2].receiver_id, body[2].content))),
    HttpResponse(400, Detail("Empty message")) }

\* the endpoints the views load their data from, in the order of the requests
ViewUrls(view) ==
  IF view = "admin" THEN <<"admin/courses", "admin/users">>
  ELSE <<"courses", "users/me/progress">>
ListUrls == {"admin/courses", "admin/users", "courses", "users/me/progress"}

\* to the GET of a list: the list, or a refusal
ListResponses ==
  { HttpResponse(200, Json(<<>>)), HttpResponse(403, Detail("Forbidden")) }

\* what the backend may answer to a request a page makes through apiRequest
EndpointResponses(url, body) ==
  ErrorAnswers \cup
  ( CASE url = "payments/initiate" -> PaymentResponses
      [] url \in {ProgressUrl(c) : c \in Courses} ->
           ProgressResponses(CHOOSE c \in Courses : ProgressUrl(c) = url, body)
      [] url \in {ConversationUrl(o) : o \in OtherUsers} ->
           ConversationResponses(CHOOSE o \in OtherUsers : ConversationUrl(o) = url)
      [] url = "messages/send" -> SendResponses(body)
      [] url \in ListUrls -> ListResponses )

\* the answers to the request of the call q
Answers(q) ==
  IF q.url = "none" THEN TargetResponses(q.op) ELSE EndpointResponses(q.url, q.body)

\* to POST /api/auth/refresh/: the next pair, a refusal, or the failure
RefreshResponses ==
  { HttpResponse(200, Json(TokenPair(issued + 1))),
    HttpResponse(401, Detail("Invalid refresh token")),
    HttpResponse(500, NotJson),
    NetworkError }

\* to POST /api/auth/login/
LoginResponses ==
  { HttpResponse(200, Json(TokenPair(issued + 1))),
    HttpResponse(400, Json([requires_2fa |-> Bool(TRUE)])),
    HttpResponse(400, Detail("Invalid credentials")),
    HttpResponse(423, Detail("Account locked")),
    HttpResponse(500, NotJson),
    NetworkError }
  \cup { HttpResponse(429, Json([detail |-> Str("Too many attempts"),
                                 retry_after |-> Num(n)])) : n \in 1..MaxRetryAfter }

(* -------------------------------- actions ------------------------------ *)

\* one more call may be made
CanStart == BagCardinality(calls) < NumCalls

\* the calls in flight or finished
Calls == BagToSet(calls)

NewCall(op) == [IdleCall EXCEPT !.op = op]

\* a stretch of a call ends in the state w of the call, the store and the
\* session (window.location is written only: each call records its assignments)
Store(w) ==
  /\ localStorage' = w.ls
  /\ user' = w.user
  /\ loading' = w.loading
  /\ UNCHANGED classifier

\* the stretches of lib/api.js and of AuthProvider leave the page's state alone
Effects(w) == Store(w) /\ UNCHANGED ui

\* a call is made: its first stretch
Begin(w) ==
  /\ CanStart
  /\ calls' = calls (+) SetToBag({w.q})
  /\ Effects(w)

\* the call `old` is resumed: its next stretch
Commit(old, w) ==
  /\ calls' = (calls (-) SetToBag({old})) (+) SetToBag({w.q})
  /\ Effects(w)

\* a view calls apiRequest(url, options)
CallApiRequest ==
  /\ Begin(World(apiRequestBegin(NewCall("apiRequest"), localStorage), localStorage))
  /\ UNCHANGED issued

\* refreshToken() is called on its own
CallRefreshToken ==
  /\ Begin(AfterRefresh(World(refreshTokenBegin(NewCall("refreshToken"), localStorage),
                              localStorage)))
  /\ UNCHANGED issued

\* login(credentials) up to its await of fetch
CallLogin ==
  /\ Begin(World([NewCall("login") EXCEPT !.pc = "loginFetch"], localStorage))
  /\ UNCHANGED issued

\* logout(): the server call when a refresh token is stored, else the cleanup
CallLogout ==
  /\ LET refresh_token == getItem(localStorage, "refresh_token")
         q == NewCall("logout")
     IN  IF Truthy(refresh_token)
           THEN Begin(World(apiRequestBegin([q EXCEPT !.body = refresh_token],
                                            localStorage), localStorage))
           ELSE Begin(logoutCleanup(World(q, localStorage)))
  /\ UNCHANGED issued

CallLogoutAll ==
  /\ Begin(World(apiRequestBegin(NewCall("logoutAll"), localStorage), localStorage))
  /\ UNCHANGED issued

CallDeleteAccountImmediate ==
  /\ Begin(World(apiRequestBegin(NewCall("deleteAccountImmediate"), localStorage),
                 localStorage))
  /\ UNCHANGED issued

\* AuthProvider mounts: the effect runs loadUser, once
LoadUser ==
  /\ \A o \in Calls : o.op # "loadUser"
  /\ LET token == getItem(localStorage, "access_token")
         q == NewCall("loadUser")
     IN  IF Truthy(token)
           THEN Begin(World(apiRequestBegin(q, localStorage), localStorage))
           ELSE Begin(loadUserEnd(World(q, localStorage)))
  /\ UNCHANGED issued

\* mutant: a single-flight guard: a 401 that arrives while another call has a
\* refresh outstanding is not followed by a refresh of its own
FirstResponseSingleFlight ==
  \E q \in Calls :
    /\ q.pc = "fetch1"
    /\ \E r \in Answers(q) :
         IF r.status = 401 /\ \E o \in Calls : o.pc = "refresh"
           THEN Commit(q, Resume(World(apiRequestReturn([q EXCEPT !.first = r],
                                                        AuthFailedResponse),
                                       localStorage)))
           ELSE Commit(q, Resume(World(apiRequestFirst(q, localStorage, r),
                                       localStorage)))
    /\ UNCHANGED issued

\* the first request of an apiRequest is answered, or fails
FirstResponse ==
  \E q \in Calls :
    /\ q.pc = "fetch1"
    /\ \E r \in Answers(q) :
         Commit(q, Resume(World(apiRequestFirst(q, localStorage, r), localStorage)))
    /\ UNCHANGED issued

\* the request of a refreshToken is answered, or fails
RefreshResponse ==
  \E q \in Calls :
    /\ q.pc = "refresh"
    /\ \E r \in RefreshResponses :
         /\ LET after == refreshTokenResume(q, localStorage, r)
            IN  Commit(q, AfterRefresh(World(after.q, after.ls)))
         /\ issued' = IF Ok(r) THEN issued + 1 ELSE issued

\* the retry of an apiRequest is answered, or fails
RetryResponse ==
  \E q \in Calls :
    /\ q.pc = "fetch2"
    /\ \E r \in Answers(q) :
         Commit(q, Resume(World(RetryAnswered(q, r), localStorage)))
    /\ UNCHANGED issued

\* the request of a login is answered, or fails
LoginResponse ==
  \E q \in Calls :
    /\ q.pc = "loginFetch"
    /\ \E r \in LoginResponses :
         /\ Commit(q, loginResume(World(q, localStorage), r))
         /\ issued' = IF Ok(r) THEN issued + 1 ELSE issued

(* ----------------------------- specification --------------------------- *)

\* the page opens with the pair of an earlier login in the store, or with
\* an empty store
Init ==
  /\ issued \in {0, 1}
  /\ localStorage = IF issued = 0 THEN EmptyStore ELSE TokenPair(1)
  /\ calls = EmptyBag
  /\ user = Null
  /\ loading = TRUE
  /\ classifier = ClassifierOff
  /\ ui = NoPage

Next ==
  \/ CallApiRequest
  \/ CallRefreshToken
  \/ CallLogin
  \/ CallLogout
  \/ CallLogoutAll
  \/ CallDeleteAccountImmediate
  \/ LoadUser
  \/ FirstResponse
  \/ RefreshResponse
  \/ RetryResponse
  \/ LoginResponse

Spec == Init /\ [][Next]_vars

(* ---------------------- the login page and its countdown --------------- *)

\* a call a page awaits has finished: the page's handler takes its result
Take(q) == calls' = calls (-) SetToBag({q})

\* JavaScript's v <= n, v > n and v - 1 on a number or on undefined / NaN
NaN == <<"NaN">>
IsNum(v) == v[1] = "number"
Leq(v, n) == IsNum(v) /\ v[2] <= n
Gt(v, n) == IsNum(v) /\ v[2] > n
Minus1(v) == IF IsNum(v) THEN Num(v[2] - 1) ELSE NaN

\* ClientLoginPage as it mounts; timeLeft is the state of RateLimitMessage,
\* unset while the component is not rendered
LoginPage ==
  [page           |-> "login",
   isPending      |-> FALSE,
   message        |-> Str(""),
   rateLimitError |-> Null,
   requires2FA    |-> FALSE,
   timeLeft       |-> Unset,
   submits        |-> 0,       \* the login requests submitted from the form
   pushed         |-> FALSE]   \* router.push("/dashboard")

\* the submit button is rendered with disabled={isPending}
CanSubmit == ui.page = "login" /\ ~ui.isPending /\ ~ui.pushed
\* RateLimitMessage is rendered
CountingDown == ui.page = "login" /\ ui.rateLimitError # Null
\* RateLimitMessage renders the Try Again button in place of the countdown
TryAgainOffered == CountingDown /\ ~Gt(ui.timeLeft, 0)

\* handleLogin from the submit event to `await login(...)`
handleLogin ==
  /\ CanSubmit
  /\ ui.submits < MaxEvents
  /\ ui' = [ui EXCEPT !.isPending = TRUE, !.message = Str(""),
                      !.rateLimitError = Null, !.requires2FA = FALSE,
                      !.timeLeft = Unset, !.submits = @ + 1]
  /\ CanStart
  /\ calls' = calls (+) SetToBag({[NewCall("login") EXCEPT !.pc = "loginFetch"]})
  /\ UNCHANGED <<localStorage, issued, user, loading, classifier>>

\* handleLogin after the await, on the result of login
handleLoginResult(page, result) ==
  LET error == IF result.error = Undefined THEN EmptyObject ELSE result.error[2]
      failed == OrElse(Field(error, "message"),
                       Str("Login failed. Please check your credentials."))
      done == [page EXCEPT !.isPending = FALSE]
  IN  IF result.success THEN [done EXCEPT !.pushed = TRUE]
      ELSE IF Truthy(result.requires2FA) THEN
        [done EXCEPT !.requires2FA = TRUE,
                     !.message = Str("Two-factor authentication required.")]
      ELSE IF Truthy(Field(error, "isRateLimited")) THEN
        [done EXCEPT !.rateLimitError = result.error,
                     !.timeLeft = Field(error, "retryAfter")]
      ELSE IF Truthy(Field(error, "isLocked")) THEN
        [done EXCEPT !.message = Field(error, "message")]
      ELSE [done EXCEPT !.message = failed]

\* login has returned, or has thrown: handleLogin resumes, or ends there with
\* isPending left true
handleLoginResumes ==
  \E q \in Calls :
    /\ ui.isPending
    /\ q.op = "login" /\ q.pc = "done"
    /\ Take(q)
    /\ ui' = IF q.outcome = "threw" THEN ui ELSE handleLoginResult(ui, q.result)
    /\ UNCHANGED <<localStorage, issued, user, loading, classifier>>

\* RateLimitMessage: the interval fires; the effect has set it because
\* timeLeft <= 0 was false
Tick ==
  /\ CountingDown
  /\ ~Leq(ui.timeLeft, 0)
  /\ ui' = [ui EXCEPT !.timeLeft = IF Leq(@, 1) THEN Num(0) ELSE Minus1(@)]
  /\ UNCHANGED <<localStorage, issued, calls, user, loading, classifier>>

\* handleRetry, from the Try Again button
handleRetry ==
  /\ TryAgainOffered
  /\ ui' = [ui EXCEPT !.rateLimitError = Null, !.timeLeft = Unset]
  /\ UNCHANGED <<localStorage, issued, calls, user, loading, classifier>>

LoginPageInit ==
  /\ issued \in {0, 1}
  /\ localStorage = IF issued = 0 THEN EmptyStore ELSE TokenPair(1)
  /\ calls = EmptyBag
  /\ user = Null
  /\ loading = TRUE
  /\ classifier = ClassifierOff
  /\ ui = LoginPage

LoginPageNext ==
  \/ handleLogin
  \/ LoginResponse
  \/ handleLoginResumes
  \/ Tick
  \/ handleRetry

SpecLoginPage == LoginPageInit /\ [][LoginPageNext]_vars

(* ------------------------------- the claims ---------------------------- *)

\* the assignments of window.location.href that refreshToken makes
RefreshTokenLines == {41, 65, 75}
LoginRedirects(q) ==
  { i \in 1..Len(q.hrefs) :
      q.hrefs[i].href = "/login" /\ q.hrefs[i].line \in RefreshTokenLines }

\* the calls a step has started or resumed, as it leaves them, and as they were
Stepped == BagToSet(calls' (-) calls)
Before == BagToSet(calls (-) calls')

\* the refresh inside the call failed: refreshToken returned null
RefreshFailed(q) == q.rtCalls = 1 /\ q.rtRet = Null
\* the refresh inside the call succeeded: refreshToken returned a token
RefreshSucceeded(q) == q.rtCalls = 1 /\ Truthy(q.rtRet)

\* C1: a call of apiRequest sends its target request at most twice and invokes
\* refreshToken at most once, which sends at most one refresh request,
\* whatever the backend answers.
C1_AtMostOneRetryOneRefresh ==
  \A q \in Calls :
    /\ Len(q.sent) <= 2
    /\ q.rtCalls <= 1
    /\ Len(q.rtSent) <= q.rtCalls

\* C1 witness: an apiRequest that has returned after a refresh and a retry
C1_Witness ==
  \E q \in Calls :
    q.op = "apiRequest" /\ q.pc = "done" /\ Len(q.sent) = 2 /\ q.rtCalls = 1

\* C2: after a first 401 and a successful refresh the call has sent exactly
\* two requests, the first with the token read from the store and the retry
\* with the token refreshToken returned; it invokes refreshToken once; a retry
\* exists only once refreshToken has returned a token; and what apiRequest
\* returns is the answer to the retry, whatever its status.
C2_RetryAfterRefresh ==
  \A q \in Calls :
    /\ (q.first.status = 401 /\ RefreshSucceeded(q)) =>
         /\ Len(q.sent) = 2
         /\ q.sent[1].bearer = q.token
         /\ q.sent[2].bearer = q.rtRet
         /\ q.rtRet = Field(q.refreshed.body.obj, "access_token")
         /\ q.pc = "fetch2" \/ q.api \in {"returned", "threw"}
         /\ q.api = "returned" => q.response = q.retried
         /\ q.api = "threw" => Rejected(q.retried)
    /\ Len(q.sent) = 2 => q.first.status = 401 /\ RefreshSucceeded(q)

\* C2 witness: the retry was answered 401 again and that 401 was returned
C2_Witness ==
  \E q \in Calls :
    /\ q.first.status = 401 /\ RefreshSucceeded(q)
    /\ q.api = "returned" /\ q.response.status = 401 /\ q.rtCalls = 1
    /\ q.token # q.rtRet

\* C3 (as claimed): when an apiRequest whose first answer was 401 returns
\* after the refresh endpoint answered non-2xx, no retry was sent and the
\* store is empty.
C3_StoreEmptyAfterRefusedRefresh ==
  [][\A q \in Stepped :
       (/\ q.op = "apiRequest" /\ q.pc = "done"
        /\ q.first.status = 401
        /\ q.refreshed.type = "basic" /\ ~Ok(q.refreshed))
       => (Len(q.sent) = 1 /\ localStorage' = EmptyStore)]_vars

\* C4: an invocation of refreshToken that fails (no refresh token stored, a
\* non-2xx answer with a JSON body or without, a network failure) returns null
\* and has assigned "/login" to window.location.href exactly once; one that
\* returns a token has not redirected.
C4_FailedRefreshRedirectsOnce ==
  \A q \in Calls :
    /\ (q.rtCalls = 1 /\ q.rtSent = <<>>) => RefreshFailed(q)
    /\ (q.refreshed.type = "error") => RefreshFailed(q)
    /\ (q.refreshed.type = "basic" /\ ~Ok(q.refreshed)) => RefreshFailed(q)
    /\ RefreshFailed(q) => Cardinality(LoginRedirects(q)) = 1
    /\ RefreshSucceeded(q) => LoginRedirects(q) = {}

\* C4 witness: the refresh endpoint answered non-2xx with a body that is not
\* JSON, and the call redirected once
C4_Witness ==
  \E q \in Calls :
    /\ q.refreshed.type = "basic" /\ ~Ok(q.refreshed) /\ q.refreshed.body = NotJson
    /\ RefreshFailed(q) /\ Cardinality(LoginRedirects(q)) = 1

\* C5: when refreshToken fails inside apiRequest, apiRequest has sent no
\* retry and has returned the made-up response, status 401 with the detail
\* "Authentication failed, please log in.", and the redirect to /login is the
\* first navigation the call requested.
C5_SyntheticAuthFailure ==
  \A q \in Calls :
    (q.api # "none" /\ RefreshFailed(q)) =>
      /\ Len(q.sent) = 1
      /\ q.api = "returned"
      /\ q.response.status = 401
      /\ q.response.body = Json([detail |-> Str("Authentication failed, please log in.")])
      /\ 1 \in LoginRedirects(q)

\* C5 witness: a view's apiRequest returned the made-up 401 after a refused refresh
C5_Witness ==
  \E q \in Calls :
    /\ q.op = "apiRequest" /\ q.pc = "done" /\ RefreshFailed(q)
    /\ q.refreshed.type = "basic" /\ q.result = AuthFailedResponse

\* C6: the store holds both tokens or neither, and two stored tokens are the
\* access and the refresh token of one and the same issuance.
C6_PairTogether ==
  LET a == localStorage.access_token
      r == localStorage.refresh_token
  IN  \/ a = Null /\ r = Null
      \/ /\ a # Null /\ r # Null
         /\ a[1] = "access" /\ r[1] = "refresh"
         /\ Issuance(a) = Issuance(r)

\* C6 witness: the store holds a pair written by login or refreshToken while
\* another call, started with an older token, is still in flight
C6_Witness ==
  /\ localStorage.access_token # Null
  /\ Issuance(localStorage.access_token) >= 2
  /\ \E q \in Calls : q.pc \in {"fetch1", "refresh", "fetch2"} /\ q.token # Null
                      /\ q.token # localStorage.access_token

\* C7: the step that ends a logout leaves the store empty and logout returns
\* (it never throws), whatever happened to its server call; a logout ends in
\* the stretch in which its apiRequest returns or throws; without a stored
\* refresh token it ends at once and sends nothing.
C7_LogoutClears ==
  [][\A q \in Stepped :
       q.op = "logout" =>
         /\ q.pc = "done" => (localStorage' = EmptyStore /\ q.outcome = "returned")
         /\ q.api \in {"returned", "threw"} => q.pc = "done"
         /\ q.api = "none" => (q.pc = "done" /\ q.sent = <<>>)]_vars

\* C7 witness: a logout whose server call failed at the network has ended,
\* and one that found no refresh token too
C7_Witness ==
  /\ \E q \in Calls : q.op = "logout" /\ q.pc = "done" /\ q.api = "threw"
  /\ \E q \in Calls : q.op = "logout" /\ q.pc = "done" /\ q.api = "none"

\* C8: an invocation of refreshToken that finds no refresh token in the store
\* sends nothing (no refresh request, no retry), has redirected to /login at
\* line 41 and returns null.
C8_NoTokenNoRequest ==
  [][\A q \in Stepped :
       (/\ q.rtCalls = 1
        /\ \A o \in Before : o.rtCalls = 0
        /\ ~Truthy(getItem(localStorage, "refresh_token")))
       => /\ q.rtSent = <<>>
          /\ q.refreshed = NoResponse
          /\ Len(q.sent) = (IF q.op = "refreshToken" THEN 0 ELSE 1)
          /\ q.rtRet = Null
          /\ q.hrefs # <<>> /\ q.hrefs[1] = [href |-> "/login", line |-> 41]]_vars

\* C8 witness: an apiRequest answered 401 found the store without a refresh token
C8_Witness ==
  \E q \in Calls :
    /\ q.first.status = 401 /\ q.rtCalls = 1 /\ q.rtSent = <<>>
    /\ q.hrefs # <<>> /\ q.hrefs[1].line = 41

\* C9: the step in which a refreshToken receives a 2xx answer leaves in the
\* store exactly the access and the refresh token of that answer, and
\* refreshToken returns the answer's access token; the invocation has sent
\* one request to the refresh endpoint.
C9_RefreshReplacesPair ==
  [][\A q \in Stepped :
       (/\ q.refreshed.type = "basic" /\ Ok(q.refreshed)
        /\ \A o \in Before : o.pc = "refresh")
       => /\ localStorage' =
               [access_token  |-> Field(q.refreshed.body.obj, "access_token"),
                refresh_token |-> Field(q.refreshed.body.obj, "refresh_token")]
          /\ q.rtRet = Field(q.refreshed.body.obj, "access_token")
          /\ Len(q.rtSent) = 1]_vars

\* C9 witness: a refresh was answered 2xx when the store held another pair
\* than the one it had posted, and the store holds the answer's pair
C9_Witness ==
  \E q \in Calls :
    /\ q.refreshed.type = "basic" /\ Ok(q.refreshed)
    /\ localStorage.refresh_token = Field(q.refreshed.body.obj, "refresh_token")
    /\ Issuance(localStorage.refresh_token) > Issuance(q.rtSent[1]) + 1

\* C10 (as claimed): whenever an apiRequest that attempted a refresh returns a
\* 401, a redirect to /login has been requested during the call.
C10_Surviving401Redirects ==
  \A q \in Calls :
    (q.rtCalls = 1 /\ q.api = "returned" /\ q.response.status = 401)
      => LoginRedirects(q) # {}

(* ------------------- the claims about handleApiError ------------------- *)

\* handleApiError has finished on the response `Arg`
Classified == classifier.pc = "done"
Arg == classifier.response
\* its body is JSON, with these fields
HasJson == Arg.body.kind = "json"
Body == Arg.body.obj
\* the classified error it returned
Err == classifier.error.value
\* neither rate-limited nor locked
Generic(e) == e.isRateLimited = Bool(FALSE) /\ e.isLocked = Bool(FALSE)

\* C11 (as claimed): on a body that is not JSON handleApiError does not throw,
\* whatever the status: it returns a Generic error with the fallback message.
C11_NoThrowOnUnparseableBody ==
  (Classified /\ ~HasJson) =>
    /\ ~classifier.error.threw
    /\ Generic(Err)
    /\ Err.message = FallbackMessage

\* C17: for a 429 response (with a JSON body) handleApiError returns an error
\* with isRateLimited true and no isLocked, whose retryAfter is the body's
\* retry_after as it is and whose message is the body's detail.
C17_RateLimited ==
  (Classified /\ Arg.status = 429 /\ HasJson) =>
    /\ ~classifier.error.threw
    /\ Err.isRateLimited = Bool(TRUE)
    /\ ~Truthy(Err.isLocked)
    /\ Err.retryAfter = Field(Body, "retry_after")
    /\ Err.message = Field(Body, "detail")

\* C17 witness: a 429 with detail and the largest retry_after was classified
C17_Witness ==
  /\ Classified /\ Arg.status = 429 /\ HasJson
  /\ Field(Body, "retry_after") = Num(MaxRetryAfter)
  /\ Err.retryAfter = Num(MaxRetryAfter)
  /\ Err.message = Str("Request refused")

\* C18: for a 423 response (with a JSON body) handleApiError returns an error
\* with isLocked true and no isRateLimited, whose message is the body's
\* detail, whatever else the body carries (retry_after, errors).
C18_Locked ==
  (Classified /\ Arg.status = 423 /\ HasJson) =>
    /\ ~classifier.error.threw
    /\ Err.isLocked = Bool(TRUE)
    /\ ~Truthy(Err.isRateLimited)
    /\ Err.message = Field(Body, "detail")

\* C18 witness: a 423 whose body also carries retry_after and errors was
\* classified as locked
C18_Witness ==
  /\ Classified /\ Arg.status = 423 /\ HasJson
  /\ Truthy(Field(Body, "retry_after")) /\ Truthy(Field(Body, "errors"))
  /\ Err.isLocked = Bool(TRUE) /\ Err.message = Str("Request refused")

\* the body has a detail / a validation map (a field that is there and not null)
Present(f) == Field(Body, f) \notin {Undefined, Null}

\* C19 (as claimed): for a status other than 429 and 423 the error is neither
\* rate-limited nor locked, its message is the body's detail when the body
\* has one and the fallback when it has none, and its errors are the body's
\* validation map when it has one and the empty map otherwise.
C19_GenericDetailWhenPresent ==
  (Classified /\ Arg.status \notin {429, 423} /\ HasJson) =>
    /\ ~classifier.error.threw
    /\ Generic(Err)
    /\ Err.message = (IF Present("detail") THEN Field(Body, "detail") ELSE FallbackMessage)
    /\ Err.errors = (IF Present("errors") THEN Field(Body, "errors") ELSE Obj(EmptyObject))

\* C19 (amended): the same, with the message being the body's detail when it
\* is there and not empty (truthy), and the fallback otherwise: an empty
\* detail is replaced by the fallback too.
C19_GenericDetailWhenTruthy ==
  (Classified /\ Arg.status \notin {429, 423} /\ HasJson) =>
    /\ ~classifier.error.threw
    /\ Generic(Err)
    /\ Err.message = (IF Truthy(Field(Body, "detail"))
                        THEN Field(Body, "detail") ELSE FallbackMessage)
    /\ Err.errors = (IF Present("errors") THEN Field(Body, "errors") ELSE Obj(EmptyObject))

\* C19 witness: a 400 with a detail and a validation map was classified, both
\* carried along
C19_Witness ==
  /\ Classified /\ Arg.status = 400 /\ HasJson
  /\ Err.message = Str("Request refused")
  /\ Err.errors = Obj([email |-> Str("This field is required.")])

(* -------------- the claims about login and the session ----------------- *)

\* the fetch of the call failed at the network: login's own fetch, or the
\* profile fetch of loadUser, which apiRequest lets through as a rejection
NetworkFailed(q) ==
  \/ q.op = "login" /\ Rejected(q.first)
  \/ q.op = "loadUser" /\ q.api = "threw"

\* C12 (as claimed): a login or a session initialization whose fetch failed
\* at the network has not thrown: the failure was caught, and login returned
\* a failure result with a Generic error.
C12_NetworkFailureCaught ==
  \A q \in Calls :
    (q.pc = "done" /\ NetworkFailed(q)) =>
      /\ q.outcome = "returned"
      /\ q.op = "login" =>
           (~q.result.success /\ Generic(q.result.error[2]))

\* the profile fetch of a session initialization came back without success
ProfileRefused(q) ==
  q.op = "loadUser" /\ q.api = "returned" /\ ~Ok(q.response)

\* C13 (as claimed): the step in which the profile fetch of loadUser comes
\* back with a non-2xx response (the made-up 401 included) ends loadUser and
\* leaves the store without tokens, the user null and loading false.
C13_RefusedProfileClearsSession ==
  [][\A q \in Stepped :
       ProfileRefused(q) =>
         /\ q.pc = "done" /\ q.outcome = "returned"
         /\ localStorage' = EmptyStore
         /\ user' = Null
         /\ loading' = FALSE]_vars

\* C14 (as claimed, on finished runs): once loadUser has ended, every one of
\* its network calls having completed with a response or a failure, loading
\* is false.
C14_LoadingClearedAtEnd ==
  \A q \in Calls : (q.op = "loadUser" /\ q.pc = "done") => loading = FALSE

\* C15: the step in which a login receives a 2xx answer leaves in the store
\* the access_token and the refresh_token of the answer's body, and login
\* returns {success: true, data} with data the body.
C15_LoginStoresPair ==
  [][\A q \in Stepped :
       (q.op = "login" /\ q.pc = "done" /\ q.first.type = "basic" /\ Ok(q.first))
       => /\ localStorage' =
               [access_token  |-> Field(q.first.body.obj, "access_token"),
                refresh_token |-> Field(q.first.body.obj, "refresh_token")]
          /\ q.outcome = "returned"
          /\ q.result = Success(Obj(q.first.body.obj))]_vars

\* C15 witness: a login answered 2xx has returned success and the store holds
\* the pair of its answer, issued after the pair the page opened with
C15_Witness ==
  \E q \in Calls :
    /\ q.op = "login" /\ q.pc = "done" /\ Ok(q.first) /\ q.result.success
    /\ localStorage = q.first.body.obj
    /\ Issuance(localStorage.access_token) > 1

\* the answer to the login is a 400 whose body carries requires_2fa
Asks2FA(q) ==
  /\ q.op = "login" /\ q.pc = "done"
  /\ q.first.type = "basic" /\ q.first.status = 400
  /\ q.first.body.kind = "json"
  /\ Truthy(Field(q.first.body.obj, "requires_2fa"))

\* C16: the step in which a login receives a 400 with requires_2fa true
\* leaves the store as it was, and login returns a result with success false
\* and requires2FA true.
C16_Requires2FAStoresNothing ==
  [][\A q \in Stepped :
       Asks2FA(q) =>
         /\ localStorage' = localStorage
         /\ q.outcome = "returned"
         /\ ~q.result.success
         /\ q.result.requires2FA = Bool(TRUE)]_vars

\* C16 witness: a login was asked for the second factor while the store held
\* a pair, and the store still holds it
C16_Witness ==
  \E q \in Calls :
    /\ Asks2FA(q) /\ q.result = Requires2FA
    /\ localStorage # EmptyStore

\* C20: the step in which the first request of an apiRequest is answered with
\* a status other than 401 ends apiRequest, which returns that response as it
\* is: refreshToken was not invoked, no second request was sent, no redirect
\* was made by apiRequest; a direct call returns the response to its caller
\* and leaves the store, the user and loading as they were.
C20_Non401PassesThrough ==
  [][\A q \in Stepped :
       (/\ \E o \in Before : o.pc = "fetch1"
        /\ q.first.type = "basic" /\ q.first.status # 401)
       => /\ q.api = "returned" /\ q.response = q.first
          /\ q.rtCalls = 0 /\ q.rtSent = <<>> /\ q.rtRet = Unset
          /\ Len(q.sent) = 1
          /\ q.retried = NoResponse
          /\ LoginRedirects(q) = {}
          /\ q.op = "apiRequest" =>
               /\ q.pc = "done" /\ q.result = q.first
               /\ q.hrefs = <<>> /\ q.toasts = <<>>
               /\ localStorage' = localStorage
               /\ user' = user /\ loading' = loading]_vars

\* C20 witness: a direct apiRequest answered 500 has returned the 500 while
\* the store held a pair
C20_Witness ==
  \E q \in Calls :
    /\ q.op = "apiRequest" /\ q.pc = "done" /\ q.first.status = 500
    /\ q.result = q.first /\ q.rtCalls = 0
    /\ localStorage # EmptyStore

(* --------------- the claims about calls in flight together ------------- *)

\* C21: there is no single-flight guard: the step in which an apiRequest
\* receives a first 401 while a refresh token is stored posts that token to
\* the refresh endpoint, whatever the other calls are doing, also while the
\* refresh of another call is outstanding.
C21_EachCallerRefreshes ==
  [][\A q \in Stepped :
       (/\ \E o \in Before : o.pc = "fetch1"
        /\ q.first.type = "basic" /\ q.first.status = 401
        /\ Truthy(getItem(localStorage, "refresh_token")))
       => /\ q.pc = "refresh" /\ q.rtCalls = 1
          /\ q.rtSent = <<getItem(localStorage, "refresh_token")>>]_vars

\* C21 witness: two apiRequest calls have a refresh request outstanding at
\* the same time, both carrying the same refresh token
C21_Witness ==
  \E q \in Calls :
    /\ q.op = "apiRequest" /\ q.pc = "refresh" /\ Len(q.rtSent) = 1
    /\ CopiesIn(q, calls) = 2

\* C25 (as claimed): once a logout has ended and the store is empty, a step
\* leaves it empty unless the step is the end of a login.
C25_EmptyUntilLogin ==
  [][(/\ localStorage = EmptyStore
      /\ \E q \in Calls : q.op = "logout" /\ q.pc = "done")
     => \/ localStorage' = EmptyStore
        \/ \E q \in Stepped : q.op = "login"]_vars

\* C26 (as claimed): a login answered 400 with a JSON body without
\* requires_2fa has returned {success: false, error}, error being the
\* classification of that response; it has not thrown.
C26_BadCredentialsClassified ==
  \A q \in Calls :
    (/\ q.op = "login" /\ q.pc = "done"
     /\ q.first.type = "basic" /\ q.first.status = 400
     /\ q.first.body.kind = "json"
     /\ ~Truthy(Field(q.first.body.obj, "requires_2fa")))
    => /\ q.outcome = "returned"
       /\ q.result = Failure(Obj(generic(q.first.body.obj)))

\* C28 (as claimed): every logout request, the retry included, carries in its
\* body the refresh token that is in the store when the request is sent.
C28_LogoutSendsStoredToken ==
  [][\A q \in Stepped :
       (/\ q.op = "logout"
        /\ q.sent # <<>>
        /\ \A o \in Before : Len(o.sent) < Len(q.sent))
       => q.sent[Len(q.sent)].body = getItem(localStorage', "refresh_token")]_vars

(* ----------------------------- the payment form ------------------------ *)

\* a page calls apiRequest(url, {body}): the call up to its first await
PageRequest(url, body) ==
  apiRequestBegin([NewCall("apiRequest") EXCEPT !.url = url, !.body = body],
                  localStorage)

\* the page's handler suspends at `await apiRequest(...)`
Await(q) ==
  /\ CanStart
  /\ calls' = calls (+) SetToBag({q})
  /\ UNCHANGED <<localStorage, issued, user, loading, classifier>>

\* the handler resumes with the finished call q
Resumed(q) ==
  /\ q.pc = "done"
  /\ Take(q)
  /\ UNCHANGED <<localStorage, issued, user, loading, classifier>>

\* `const data = await response.json()` in a page's try block: the data, or
\* the exception the catch block receives (apiRequest's, or the parser's)
Data(q) ==
  IF q.outcome = "threw" THEN Threw ELSE json(q.result)

\* PaymentForm as it mounts
PaymentPage ==
  [page         |-> "payment",
   isProcessing |-> FALSE,
   submits      |-> 0,
   pushes       |-> <<>>]   \* router.push: the status, and the answer it follows

\* the Pay Now button is rendered with disabled={isProcessing}
CanPay == ui.page = "payment" /\ ~ui.isProcessing

\* handleSubmit from the submit event to `await apiRequest(...)`
handleSubmit ==
  /\ CanPay
  /\ ui.submits < MaxEvents
  /\ ui' = [ui EXCEPT !.isProcessing = TRUE, !.submits = @ + 1]
  /\ Await(PageRequest("payments/initiate", Str("card")))

Push(page, status, q) ==
  [page EXCEPT !.pushes = Append(@, [status |-> status, threw |-> q.outcome = "threw",
                                     response |-> q.response])]

\* mutant: the status of the answer is not looked at
handleSubmitResultAlwaysSuccess(page, q) ==
  IF Data(q).threw THEN [Push(page, "failed", q) EXCEPT !.isProcessing = FALSE]
  ELSE [Push(page, "success", q) EXCEPT !.isProcessing = FALSE]

\* handleSubmit after the await: try, catch and finally
handleSubmitResult(page, q) ==
  IF Data(q).threw THEN [Push(page, "failed", q) EXCEPT !.isProcessing = FALSE]
  ELSE IF Ok(q.result) THEN [Push(page, "success", q) EXCEPT !.isProcessing = FALSE]
  ELSE [Push(page, "failed", q) EXCEPT !.isProcessing = FALSE]

handleSubmitResumes ==
  \E q \in Calls :
    /\ Resumed(q)
    /\ ui' = handleSubmitResult(ui, q)

PaymentInit ==
  /\ issued \in {0, 1}
  /\ localStorage = IF issued = 0 THEN EmptyStore ELSE TokenPair(1)
  /\ calls = EmptyBag
  /\ user = Null
  /\ loading = TRUE
  /\ classifier = ClassifierOff
  /\ ui = PaymentPage

PaymentNext ==
  \/ handleSubmit
  \/ FirstResponse
  \/ RefreshResponse
  \/ RetryResponse
  \/ handleSubmitResumes

SpecPayment == PaymentInit /\ [][PaymentNext]_vars

(* ----------------------------- the progress page ---------------------- *)

\* userProgress.find((p) => p.course_id === courseId), or undefined
Find(userProgress, courseId) ==
  LET found == { i \in 1..Len(userProgress) :
                   Field(userProgress[i], "course_id") = Num(courseId) }
  IN  IF found = {} THEN Undefined
      ELSE Obj(userProgress[CHOOSE i \in found : \A j \in found : i <= j])

getCourseProgress(userProgress, courseId) ==
  LET progress == Find(userProgress, courseId)
  IN  IF Truthy(progress) THEN Field(progress[2], "progress_percentage") ELSE Num(0)

\* progress?.completed_at of getCompletedAt
CompletedAt(userProgress, courseId) ==
  LET progress == Find(userProgress, courseId)
  IN  IF Truthy(progress) THEN Field(progress[2], "completed_at") ELSE Undefined

\* mutant: every answer is added to the list
setUserProgressAppends(prevProgress, courseId, userId, data) ==
  Append(prevProgress, data)

\* the updater handleMarkComplete passes to setUserProgress
setUserProgress(prevProgress, courseId, userId, data) ==
  LET matching == { i \in 1..Len(prevProgress) :
                      /\ Field(prevProgress[i], "course_id") = Num(courseId)
                      /\ Field(prevProgress[i], "user_id") = userId }
  IN  IF matching # {} THEN
        LET existingIndex == CHOOSE i \in matching : \A j \in matching : i <= j
        IN  [prevProgress EXCEPT ![existingIndex] =
               [f \in DOMAIN @ \cup {"progress_percentage", "completed_at"} |->
                  IF f \in {"progress_percentage", "completed_at"}
                    THEN Field(data, f) ELSE @[f]]]
      ELSE Append(prevProgress, data)

\* the progress lists GET /api/users/me/progress/ may have given: for each
\* course no entry, an entry at 0 or an entry at 100
RECURSIVE ProgressLists(_)
ProgressLists(courses) ==
  IF courses = {} THEN {<<>>}
  ELSE LET c == CHOOSE x \in courses : \A y \in courses : x <= y
           rest == ProgressLists(courses \ {c})
       IN  rest \cup { <<ProgressObject(c, percentage)>> \o l :
                         percentage \in {0, 100}, l \in rest }

\* ClientProgressPage once its data is loaded
ProgressPage(userProgress) ==
  [page         |-> "progress",
   userProgress |-> userProgress,
   isUpdating   |-> FALSE,
   clicks       |-> 0,
   courseId     |-> 0,        \* handleMarkComplete: its arguments and
   sent         |-> Unset,    \* the progress_percentage it sent
   shown        |-> Unset,
   log          |-> <<>>]     \* the updates that have ended

\* the buttons are rendered with disabled={isUpdating}
CanMark == ui.page = "progress" /\ ~ui.isUpdating

\* mutant: the toggle tests for a progress above 0
newProgressValueFromAny(currentProgress) ==
  IF Gt(currentProgress, 0) THEN Num(0) ELSE Num(100)

newProgressValue(currentProgress) ==
  IF currentProgress = Num(100) THEN Num(0) ELSE Num(100)

\* handleMarkComplete(course.id, progress) from the click to the await
handleMarkComplete ==
  \E courseId \in Courses :
    LET currentProgress == getCourseProgress(ui.userProgress, courseId) IN
    /\ CanMark
    /\ ui.clicks < MaxEvents
    /\ ui' = [ui EXCEPT !.isUpdating = TRUE, !.clicks = @ + 1,
                        !.courseId = courseId, !.shown = currentProgress,
                        !.sent = newProgressValue(currentProgress)]
    /\ Await(PageRequest(ProgressUrl(courseId), newProgressValue(currentProgress)))

\* handleMarkComplete after the await: try, catch and finally
handleMarkCompleteResult(page, q) ==
  LET data == Data(q)
      updated == ~data.threw /\ Ok(q.result)
      list == IF updated
                THEN setUserProgress(page.userProgress, page.courseId,
                                     Field(user[2], "id"), data.value)
                ELSE page.userProgress
  IN  [page EXCEPT
         !.userProgress = list,
         !.isUpdating = FALSE,
         !.log = Append(@, [courseId  |-> page.courseId,
                            shown     |-> page.shown,
                            sent      |-> page.sent,
                            updated   |-> updated,
                            answer    |-> IF updated THEN Obj(data.value) ELSE Undefined,
                            kept      |-> list = page.userProgress,
                            completed |-> CompletedAt(list, page.courseId)])]

handleMarkCompleteResumes ==
  \E q \in Calls :
    /\ Resumed(q)
    /\ ui' = handleMarkCompleteResult(ui, q)

ProgressInit ==
  /\ issued = 1
  /\ localStorage = TokenPair(1)
  /\ calls = EmptyBag
  /\ user = Obj([id |-> UserId, email |-> Str("a@b.c"), role |-> Str("student")])
  /\ loading = FALSE
  /\ classifier = ClassifierOff
  /\ ui \in { ProgressPage(l) : l \in ProgressLists(Courses) }

ProgressNext ==
  \/ handleMarkComplete
  \/ FirstResponse
  \/ RefreshResponse
  \/ RetryResponse
  \/ handleMarkCompleteResumes

SpecProgress == ProgressInit /\ [][ProgressNext]_vars

(* ------------------------------- the chat ------------------------------ *)

\* ChatInterface as it mounts with no conversation selected, its effect run:
\* otherUser is the prop (0: none), the rest is the component's state
ChatPage ==
  [page              |-> "chat",
   otherUser         |-> 0,
   messages          |-> <<>>,
   isLoadingMessages |-> FALSE,
   isSending         |-> FALSE,
   events            |-> 0]

ThreadUrls == {ConversationUrl(o) : o \in OtherUsers}

\* the user selects another conversation: the effect runs fetchMessages up
\* to its await
fetchMessages ==
  \E otherUserId \in OtherUsers :
    /\ ui.page = "chat" /\ ui.otherUser # otherUserId
    /\ ui.events < MaxEvents
    /\ ui' = [ui EXCEPT !.otherUser = otherUserId, !.isLoadingMessages = TRUE,
                        !.events = @ + 1]
    /\ Await(PageRequest(ConversationUrl(otherUserId), Undefined))

\* fetchMessages after the await: try, catch and finally
fetchMessagesResult(page, q) ==
  LET data == Data(q) IN
  [page EXCEPT !.messages = IF ~data.threw /\ Ok(q.result) THEN data.value ELSE <<>>,
               !.isLoadingMessages = FALSE]

fetchMessagesResumes ==
  \E q \in Calls :
    /\ q.url \in ThreadUrls
    /\ Resumed(q)
    /\ ui' = fetchMessagesResult(ui, q)

\* handleSendMessage from the submit event to the await
handleSendMessage ==
  /\ ui.page = "chat" /\ ui.otherUser # 0 /\ ~ui.isSending
  /\ ui.events < MaxEvents
  /\ ui' = [ui EXCEPT !.isSending = TRUE, !.events = @ + 1]
  /\ Await(PageRequest("messages/send",
                       Obj([receiver_id |-> ui.otherUser, content |-> Str("hi")])))

\* handleSendMessage after the await: try, catch and finally
handleSendMessageResult(page, q) ==
  LET data == Data(q) IN
  [page EXCEPT !.messages = IF ~data.threw /\ Ok(q.result)
                              THEN Append(@, data.value) ELSE @,
               !.isSending = FALSE]

handleSendMessageResumes ==
  \E q \in Calls :
    /\ q.url = "messages/send"
    /\ Resumed(q)
    /\ ui' = handleSendMessageResult(ui, q)

ChatInit ==
  /\ issued = 1
  /\ localStorage = TokenPair(1)
  /\ calls = EmptyBag
  /\ user = Null
  /\ loading = TRUE
  /\ classifier = ClassifierOff
  /\ ui = ChatPage

ChatNext ==
  \/ fetchMessages
  \/ handleSendMessage
  \/ FirstResponse
  \/ RefreshResponse
  \/ RetryResponse
  \/ fetchMessagesResumes
  \/ handleSendMessageResumes

SpecChat == ChatInit /\ [][ChatNext]_vars

(* ------------------ the views that wait for the session --------------- *)

Views == {"dashboard", "progress", "admin"}

\* DashboardClientPage, ClientProgressPage or AdminDashboardClientPage as it
\* mounts; deps are the values of [user, loadingAuth] its effect last ran with
View(view) ==
  [page        |-> "view",
   view        |-> view,
   deps        |-> Unset,
   loadingData |-> TRUE,
   isAdmin     |-> FALSE,
   awaiting    |-> 0,      \* the request of ViewUrls the fetch is suspended at
   requests    |-> <<>>,   \* the endpoints requested
   toasts      |-> <<>>]   \* the toasts shown, by title

\* fetchDashboardData, fetchUserDataAndCourses: what the effect does first
fetchDashboardData(u, loadingAuth) ==
  IF loadingAuth THEN "wait"
  ELSE IF Truthy(u) THEN "fetch"
  ELSE IF ~Truthy(u) /\ ~loadingAuth THEN "Authentication Required"
  ELSE "wait"

\* mutant: the role of the user is not looked at
fetchAdminDataAnyRole(u, loadingAuth) ==
  IF loadingAuth THEN "wait"
  ELSE IF Truthy(u) THEN "fetch"
  ELSE IF ~Truthy(u) /\ ~loadingAuth THEN "Access Denied"
  ELSE "wait"

\* fetchAdminData: what the effect does first
fetchAdminData(u, loadingAuth) ==
  IF loadingAuth THEN "wait"
  ELSE IF Truthy(u) /\ Field(u[2], "role") = Str("admin") THEN "fetch"
  ELSE IF Truthy(u) /\ Field(u[2], "role") # Str("admin") THEN "Access Denied"
  ELSE IF ~Truthy(u) /\ ~loadingAuth THEN "Access Denied"
  ELSE "wait"

\* the view requests the next endpoint of its list
Requested(page, url) ==
  [page EXCEPT !.awaiting = @ + 1, !.requests = Append(@, url)]

\* the effect of the view runs: at mount and when user or loadingAuth changed
ViewEffect ==
  /\ ui.page = "view"
  /\ ui.deps # <<user, loading>>
  /\ LET does == IF ui.view = "admin" THEN fetchAdminData(user, loading)
                 ELSE fetchDashboardData(user, loading)
         ran == [ui EXCEPT !.deps = <<user, loading>>]
     IN  CASE does = "wait" ->
                /\ ui' = ran
                /\ UNCHANGED <<localStorage, issued, calls, user, loading, classifier>>
           [] does = "fetch" ->
                /\ ui' = Requested([ran EXCEPT !.loadingData = TRUE,
                                               !.isAdmin = (ui.view = "admin")],
                                   ViewUrls(ui.view)[1])
                /\ Await(PageRequest(ViewUrls(ui.view)[1], Undefined))
           [] OTHER ->
                /\ ui' = [ran EXCEPT !.toasts = Append(@, does)]
                /\ UNCHANGED <<localStorage, issued, calls, user, loading, classifier>>

\* the fetch of the view ends: by an exception, in the catch block, or after
\* the last list; finally (not in the admin view) loadingData is cleared
ViewFetched(page, failed) ==
  [page EXCEPT !.awaiting = 0,
               !.loadingData = IF page.view = "admin" THEN @ ELSE FALSE,
               !.toasts = IF failed THEN Append(@, "Error") ELSE @]

\* the fetch of the view resumes with the answer to its request
ViewResumes ==
  \E q \in Calls :
    /\ ui.page = "view" /\ q.url \in ListUrls
    /\ q.pc = "done"
    /\ LET failed == Data(q).threw \/ ~Ok(q.result) IN
       IF ~failed /\ ui.awaiting < Len(ViewUrls(ui.view))
         THEN /\ ui' = Requested(ui, ViewUrls(ui.view)[ui.awaiting + 1])
              /\ calls' = (calls (-) SetToBag({q}))
                            (+) SetToBag({PageRequest(ViewUrls(ui.view)[ui.awaiting + 1],
                                                      Undefined)})
              /\ UNCHANGED <<localStorage, issued, user, loading, classifier>>
         ELSE /\ ui' = ViewFetched(ui, failed)
              /\ Resumed(q)

\* what the view renders
Screen ==
  IF ui.view = "admin" THEN
    IF loading THEN "loading"
    ELSE IF ~ui.isAdmin THEN "Access Denied" ELSE "content"
  ELSE
    IF loading \/ ui.loadingData THEN "loading"
    ELSE IF ~Truthy(user) THEN "Authentication required" ELSE "content"

ViewsInit ==
  /\ issued \in {0, 1}
  /\ localStorage = IF issued = 0 THEN EmptyStore ELSE TokenPair(1)
  /\ calls = EmptyBag
  /\ user = Null
  /\ loading = TRUE
  /\ classifier = ClassifierOff
  /\ ui \in { View(view) : view \in Views }

ViewsNext ==
  \/ LoadUser
  \/ ViewEffect
  \/ FirstResponse
  \/ RefreshResponse
  \/ RetryResponse
  \/ ViewResumes

SpecViews == ViewsInit /\ [][ViewsNext]_vars

(* ----------------------- the claims about the pages -------------------- *)

\* C22 (as claimed): the countdown never goes below 0, and while it is above
\* 0 the Try Again button is not offered and the form cannot be submitted.
C22_NoRetryWhileCountingDown ==
  CountingDown =>
    /\ Gt(ui.timeLeft, 0) \/ ui.timeLeft = Num(0)
    /\ Gt(ui.timeLeft, 0) => (~TryAgainOffered /\ ~CanSubmit)

\* C30: every navigation to the payment status follows the end of a payment
\* call: with status=success only after a 2xx response whose body was read,
\* with status=failed after every non-2xx response and every exception;
\* isProcessing is true exactly while a payment call is outstanding (it is
\* reset in all cases), then the form cannot be submitted, and at most one
\* payment call is outstanding.
C30_PaymentOutcome ==
  ui.page = "payment" =>
    /\ \A i \in 1..Len(ui.pushes) :
         LET push == ui.pushes[i] IN
           /\ push.status = "success" =>
                (~push.threw /\ push.response.type = "basic" /\ Ok(push.response))
           /\ (push.threw \/ ~Ok(push.response)) => push.status = "failed"
    /\ ui.isProcessing <=> calls # EmptyBag
    /\ ui.isProcessing => ~CanPay
    /\ BagCardinality(calls) <= 1
    /\ Len(ui.pushes) + BagCardinality(calls) = ui.submits

\* C30 witness: one payment went to status=success after a 200, another to
\* status=failed after an exception, and the form is ready again
C30_Witness ==
  /\ ui.page = "payment" /\ ~ui.isProcessing
  /\ \E i \in 1..Len(ui.pushes) :
       ui.pushes[i].status = "success" /\ ui.pushes[i].response.status = 200
  /\ \E i \in 1..Len(ui.pushes) :
       ui.pushes[i].status = "failed" /\ ui.pushes[i].threw

\* the update i of the log succeeded with the backend storing what was sent
Toggled(i) ==
  /\ ui.log[i].updated
  /\ Field(ui.log[i].answer[2], "progress_percentage") = ui.log[i].sent

\* the updates i < j are successive updates of the same course
Successive(i, j) ==
  /\ i < j /\ ui.log[i].courseId = ui.log[j].courseId
  /\ \A k \in (i + 1)..(j - 1) : ui.log[k].courseId # ui.log[i].courseId

\* C24: handleMarkComplete sends progress_percentage 0 when the progress
\* shown for the course is exactly 100, and 100 otherwise; of two successive
\* successful toggles of a course that start from 0, the first sends 100 and
\* leaves completed_at set in the local list, the second sends 0 and leaves
\* it cleared.
C24_ToggleSends100Then0 ==
  ui.page = "progress" =>
    /\ ui.isUpdating =>
         ui.sent = (IF ui.shown = Num(100) THEN Num(0) ELSE Num(100))
    /\ \A i \in 1..Len(ui.log) :
         ui.log[i].sent = (IF ui.log[i].shown = Num(100) THEN Num(0) ELSE Num(100))
    /\ \A i, j \in 1..Len(ui.log) :
         (Successive(i, j) /\ Toggled(i) /\ Toggled(j) /\ ui.log[i].shown = Num(0))
         => /\ ui.log[i].sent = Num(100) /\ Truthy(ui.log[i].completed)
            /\ ui.log[j].sent = Num(0) /\ ~Truthy(ui.log[j].completed)

\* C24 witness: a course without progress was toggled twice with success
C24_Witness ==
  /\ ui.page = "progress"
  /\ \E i, j \in 1..Len(ui.log) :
       /\ Successive(i, j) /\ Toggled(i) /\ Toggled(j)
       /\ ui.log[i].shown = Num(0) /\ ui.log[j].sent = Num(0)
       /\ ~Truthy(CompletedAt(ui.userProgress, ui.log[j].courseId))

\* the last update of the course that succeeded, 0 if there is none
LastUpdate(courseId) ==
  LET done == { i \in 1..Len(ui.log) :
                  ui.log[i].courseId = courseId /\ ui.log[i].updated }
  IN  IF done = {} THEN 0 ELSE CHOOSE i \in done : \A j \in done : j <= i

\* C29: the local list holds at most one entry per course; the progress shown
\* for a course that was updated with success is the progress_percentage of
\* the latest successful answer for it; an update that failed has left the
\* list as it was; while an update is outstanding no other can be started
\* (at most one is outstanding).
C29_OneEntryLatestAnswer ==
  ui.page = "progress" =>
    /\ \A i, j \in 1..Len(ui.userProgress) :
         Field(ui.userProgress[i], "course_id") = Field(ui.userProgress[j], "course_id")
           => i = j
    /\ \A c \in Courses :
         LastUpdate(c) # 0 =>
           getCourseProgress(ui.userProgress, c) =
             Field(ui.log[LastUpdate(c)].answer[2], "progress_percentage")
    /\ \A i \in 1..Len(ui.log) : ~ui.log[i].updated => ui.log[i].kept
    /\ ui.isUpdating <=> calls # EmptyBag
    /\ ui.isUpdating => ~CanMark
    /\ BagCardinality(calls) <= 1

\* C29 witness: a course was updated twice with success, another update
\* failed, and the list has one entry for the course, with the latest answer
C29_Witness ==
  /\ ui.page = "progress"
  /\ \E i, j, k \in 1..Len(ui.log) :
       /\ i < j /\ ui.log[i].courseId = ui.log[j].courseId
       /\ ui.log[i].updated /\ ui.log[j].updated /\ ~ui.log[k].updated
       /\ Field(ui.log[i].answer[2], "progress_percentage")
            # Field(ui.log[j].answer[2], "progress_percentage")

\* a thread fetch is outstanding; the fetch of the selected conversation is
ThreadOutstanding == \E q \in Calls : q.url \in ThreadUrls
CurrentOutstanding == \E q \in Calls : q.url = ConversationUrl(ui.otherUser)

\* C27 (as claimed): when no thread fetch is outstanding every message shown
\* belongs to the selected conversation, and the loading indicator is on
\* while the fetch of the selected conversation is outstanding.
C27_ShownThreadIsSelected ==
  (ui.page = "chat" /\ ui.otherUser # 0) =>
    /\ ~ThreadOutstanding =>
         \A i \in 1..Len(ui.messages) : ui.messages[i].conversation = ui.otherUser
    /\ CurrentOutstanding => ui.isLoadingMessages

\* C23: while loading is true the view has requested nothing, has shown no
\* verdict (no toast, and it renders the loading screen); whenever it has
\* requested data, loading is false and a user is present; the admin view
\* has requested the admin endpoints only for a user whose role is admin.
C23_ViewsWaitForSession ==
  ui.page = "view" =>
    /\ loading => (ui.requests = <<>> /\ ui.toasts = <<>> /\ Screen = "loading")
    /\ ui.requests # <<>> => (~loading /\ Truthy(user))
    /\ (ui.view = "admin" /\ ui.requests # <<>>) =>
         Field(user[2], "role") = Str("admin")

\* C23 witness: the session has loaded an admin and the admin view has
\* requested both admin lists
C23_Witness ==
  /\ ui.page = "view" /\ ui.view = "admin"
  /\ ui.requests = <<"admin/courses", "admin/users">>
  /\ Field(user[2], "role") = Str("admin")

====
